---- MODULE Spec2Model ----
(***************************************************************************)
(* devsim.py: a Modbus/TCP device simulator.                               *)
(*                                                                         *)
(* The script builds ONE ModbusSequentialDataBlock(0, [0]*10), uses it as  *)
(* the di, co, hr and ir bank of three ModbusSlaveContext objects (ids 1,  *)
(* 2, 3), wraps them in ModbusServerContext(single=False), starts the      *)
(* daemon thread sync() and serves the context with StartTcpServer.        *)
(*                                                                         *)
(* The state is the heap of data-block value lists, the position and the   *)
(* locals of the sync thread, one handler thread per TCP connection, and   *)
(* the life cycle of the process.  The library calls the script makes      *)
(* (pymodbus 2.x: pymodbus.datastore, pymodbus.server.sync) are modelled   *)
(* at the call sites, by what the called code does:                        *)
(*   - ModbusSlaveContext has zero_mode=False: validate, getValues and     *)
(*     setValues add 1 to the protocol address;                            *)
(*   - ModbusSequentialDataBlock.getValues is a list slice,                *)
(*     setValues is a list slice ASSIGNMENT (it can grow the list),        *)
(*     validate compares against the current length of the list;           *)
(*   - each of these list operations is one CPython operation under the    *)
(*     global interpreter lock, hence one atomic step; a request's         *)
(*     validate / setValues / getValues are separate steps;                *)
(*   - the socket framer drops a frame whose unit id is not served         *)
(*     (single=False, neither 0 nor 255 among the slave ids).              *)
(***************************************************************************)
EXTENDS Integers, Sequences, FiniteSets, TLC

(* ------------------------------------------------------------------ *)
(* Bounds of the model                                                 *)
(* ------------------------------------------------------------------ *)

\* Number of TCP connections the model follows.
NConn == 2

\* Largest address and count the state-level probes of the read path try.
ProbeMax == 12

(* ------------------------------------------------------------------ *)
(* Program constants                                                   *)
(* ------------------------------------------------------------------ *)

\* random.randint(0, 1000): both ends included.
RandLo == 0
RandHi == 1000
\* range(10): the length of a tick's list of values.
NValues == 10
\* ModbusSequentialDataBlock(0, [0]*10): start address and initial length.
BlockAddress == 0
BlockSize == 10
\* context[slave_id].setValues(4, 0, values)
SyncFx == 4
SyncAddress == 0
\* for slave_id in range(1, 4)
FirstSlave == 1
PastLastSlave == 4

\* Served by StartTcpServer (library values).
IllegalFunction == 1
IllegalAddress == 2
IllegalValue == 3
GatewayNoResponse == 11
ErrorBit == 128
MaxReadCount == 125
MaxRegister == 65535

Conns == 1..NConn

Min(a, b) == IF a < b THEN a ELSE b
Max(a, b) == IF a > b THEN a ELSE b

(* ------------------------------------------------------------------ *)
(* The datastore built by __main__                                     *)
(* ------------------------------------------------------------------ *)

Banks == {"d", "c", "h", "i"}

\* The one data block object: block = ModbusSequentialDataBlock(0, [0]*10)
block == "block"

InitialValues == [i \in 1..BlockSize |-> 0]

\* A variant of the slave table with a block of its own per slave and bank.
slavesIsolated == [u \in {1, 2, 3} |-> [b \in Banks |-> <<"block", u, b>>]]

\* slaves = {1: ModbusSlaveContext(di=block, co=block, hr=block, ir=block), 2: ..., 3: ...}
slaves == [u \in {1, 2, 3} |-> [b \in Banks |-> block]]

\* ModbusServerContext(slaves=slaves, single=False)
single == FALSE

\* context.slaves()
units == DOMAIN slaves

\* The data block objects the slave table refers to.
Objects == {slaves[u][b] : u \in units, b \in Banks}

\* ModbusSlaveContext.decode(fx): the bank a function code addresses.
Decode(fx) ==
    CASE fx = 2 -> "d"
      [] fx \in {1, 5, 15} -> "c"
      [] fx = 4 -> "i"
      [] OTHER -> "h"

\* context[slave_id] of a ModbusServerContext: is the id there?
HasSlave(u) == single \/ u \in units

\* The block object behind context[u] for function code fx.
BlockOf(u, fx) == slaves[u][Decode(fx)]

(* ------------------------------------------------------------------ *)
(* List operations of the data block                                   *)
(* ------------------------------------------------------------------ *)

\* Python's s[lo:hi] for 0 <= lo (indices clamp to the length).
PySlice(s, lo, hi) == SubSeq(s, Min(lo, Len(s)) + 1, Min(hi, Len(s)))

\* Python's s[lo:hi] = new for 0 <= lo: the list may grow or shrink.
PySliceAssign(s, lo, hi, new) ==
    SubSeq(s, 1, Min(lo, Len(s))) \o new \o SubSeq(s, Max(Min(hi, Len(s)), Min(lo, Len(s))) + 1, Len(s))

\* A slice assignment observed half done: the list has its new length, the
\* first half of new is stored, the rest still holds what was there.
PySliceAssignTorn(s, lo, hi, new) ==
    LET full == SubSeq(s, 1, Min(lo, Len(s))) \o new
                  \o SubSeq(s, Max(Min(hi, Len(s)), Min(lo, Len(s))) + 1, Len(s))
    IN  [i \in 1..Len(full) |->
            IF i > lo + (Len(new) \div 2) /\ i <= Len(s) THEN s[i] ELSE full[i]]

\* ModbusSequentialDataBlock.setValues(address, values)
BlockSetValues(vals, address, new) ==
    LET start == address - BlockAddress
    IN  PySliceAssign(vals, start, start + Len(new), new)

\* ModbusSequentialDataBlock.getValues(address, count)
BlockGetValues(vals, address, count) ==
    LET start == address - BlockAddress
    IN  PySlice(vals, start, start + count)

\* An address check that demands one free element past the range.
BlockValidateStrict(vals, address, count) ==
    /\ BlockAddress <= address
    /\ BlockAddress + Len(vals) > address + count

\* ModbusSequentialDataBlock.validate(address, count)
BlockValidate(vals, address, count) ==
    /\ BlockAddress <= address
    /\ BlockAddress + Len(vals) >= address + count

\* ModbusSlaveContext (zero_mode=False): validate, getValues and setValues
\* each turn the protocol address into the block address address + 1.
SlaveAddress(address) == address + 1

(* ------------------------------------------------------------------ *)
(* Requests and responses                                              *)
(* ------------------------------------------------------------------ *)

\* arg is the quantity of a read (function codes 3, 4) and the value of a
\* write single register (function code 6).
Req(u, fx, a, n) == [unit |-> u, fc |-> fx, address |-> a, arg |-> n]

NoRequest == Req(0, 0, 0, 0)

\* code = 0: a normal response carrying data; otherwise an exception response.
NoResponse == [fc |-> 0, code |-> 0, data |-> <<>>]

Normal(fx, d) == [fc |-> fx, code |-> 0, data |-> d]

\* request.doException(code): function code OR 0x80, one exception byte.
DoException(fx, c) == [fc |-> fx + ErrorBit, code |-> c, data |-> <<>>]

ReadFcs == {3, 4}
WriteFcs == {6}

\* The read requests the clients of the model send.
ReadRequests ==
    { Req(1, 4, 0, 10),      \* all input registers of slave 1
      Req(2, 3, 0, 10),      \* all holding registers of slave 2
      Req(3, 4, 2, 3),       \* a window of slave 3
      Req(1, 4, 0, 0),       \* quantity 0
      Req(3, 3, 5, 6),       \* past the end of the bank
      Req(9, 4, 0, 10),      \* a unit id that is not in the slave table
      Req(1, 99, 0, 0) }      \* a function code that is not served

\* The write requests the clients of the model send.
WriteRequests ==
    { Req(2, 6, 3, MaxRegister) }

Requests == ReadRequests \cup WriteRequests

\* The lists a tick can generate, sampled: a, b, a, b, ... for two different
\* values a, b among the ends of randint's range.
SampleValues == {RandLo, RandHi}

TickValues ==
    { [i \in 1..NValues |-> IF i % 2 = 1 THEN ab[1] ELSE ab[2]] :
          ab \in {x \in SampleValues \X SampleValues : x[1] # x[2]} }

(* ------------------------------------------------------------------ *)
(* State                                                               *)
(* ------------------------------------------------------------------ *)

VARIABLES
    blockValues,   \* data block object -> its list self.values
    pc,            \* sync thread: "generate", "setValues", "sleep", "raised"
    values,        \* sync's local list values
    slave_id,      \* sync's loop variable
    st,            \* connection -> position of its handler thread
    req,           \* connection -> the request being processed
    resp,          \* connection -> the response built for it
    phase          \* process: "running", "stopping", "exited"

vars == <<blockValues, pc, values, slave_id, st, req, resp, phase>>

syncVars == <<pc, values, slave_id>>
connVars == <<st, req, resp>>

Init ==
    /\ blockValues = [o \in Objects |-> InitialValues]
    /\ pc = "generate"
    /\ values = <<>>
    /\ slave_id = FirstSlave
    /\ st = [c \in Conns |-> "closed"]
    /\ req = [c \in Conns |-> NoRequest]
    /\ resp = [c \in Conns |-> NoResponse]
    /\ phase = "running"

\* A thread of the process takes steps as long as the process lives.
Alive == phase # "exited"

(* ------------------------------------------------------------------ *)
(* sync(context): the refresher thread                                 *)
(* ------------------------------------------------------------------ *)

\* A loop condition that reads a stop signal.
SyncLoopCondCancellable == phase = "running"

\* while True:
SyncLoopCond == TRUE

\* for slave_id in range(1, 5): one id more than the table holds.
SyncSlaveIdsOneMore == FirstSlave..PastLastSlave

\* for slave_id in range(1, 4)
SyncSlaveIds == FirstSlave..(PastLastSlave - 1)

\* values = [random.randint(0, 1000) for i in range(10)]
SyncGenerate ==
    /\ Alive
    /\ pc = "generate"
    /\ IF SyncLoopCond
         THEN /\ \E v \in TickValues : values' = v
              /\ slave_id' = FirstSlave
              /\ pc' = "setValues"
         ELSE /\ pc' = "returned"
              /\ UNCHANGED <<values, slave_id>>
    /\ UNCHANGED <<blockValues, connVars, phase>>

\* A write at the protocol address itself, without the shift by one that
\* the reads make.
SlaveSetValuesUnshifted(bv, u, fx, address, new) ==
    [bv EXCEPT ![BlockOf(u, fx)] = BlockSetValues(@, address, new)]

\* A write that readers can observe half done.
SlaveSetValuesTorn(bv, u, fx, address, new) ==
    [bv EXCEPT ![BlockOf(u, fx)] =
        LET start == SlaveAddress(address) - BlockAddress
        IN  PySliceAssignTorn(@, start, start + Len(new), new)]

\* ModbusSlaveContext.setValues(fx, address, values)
SlaveSetValues(bv, u, fx, address, new) ==
    [bv EXCEPT ![BlockOf(u, fx)] = BlockSetValues(@, SlaveAddress(address), new)]

\* ModbusSlaveContext.getValues(fx, address, count)
SlaveGetValues(bv, u, fx, address, count) ==
    BlockGetValues(bv[BlockOf(u, fx)], SlaveAddress(address), count)

\* ModbusSlaveContext.validate(fx, address, count)
SlaveValidate(bv, u, fx, address, count) ==
    BlockValidate(bv[BlockOf(u, fx)], SlaveAddress(address), count)

\* context[slave_id].setValues(4, 0, values), and the loop's next iteration;
\* context[slave_id] raises for an id the table does not hold, which ends
\* the thread.
SyncSetValues ==
    /\ Alive
    /\ pc = "setValues"
    /\ IF ~HasSlave(slave_id)
         THEN /\ pc' = "raised"
              /\ UNCHANGED <<blockValues, slave_id>>
         ELSE /\ blockValues' = SlaveSetValues(blockValues, slave_id, SyncFx, SyncAddress, values)
              /\ IF slave_id + 1 \in SyncSlaveIds
                   THEN /\ slave_id' = slave_id + 1
                        /\ pc' = "setValues"
                   ELSE /\ slave_id' = slave_id
                        /\ pc' = "sleep"
    /\ UNCHANGED <<values, connVars, phase>>

\* time.sleep(0.1), then back to the top of the loop
SyncSleep ==
    /\ Alive
    /\ pc = "sleep"
    /\ pc' = "generate"
    /\ UNCHANGED <<blockValues, values, slave_id, connVars, phase>>

sync == SyncGenerate \/ SyncSetValues \/ SyncSleep

(* ------------------------------------------------------------------ *)
(* StartTcpServer(context, address): one handler thread per connection *)
(* ------------------------------------------------------------------ *)

\* A server that serves one connection at a time: a handler waits while
\* another connection has a frame half read.
HandlerRunsSerial(c) == Alive /\ \A d \in Conns \ {c} : st[d] # "partial"

\* The threading server: the handler of a connection runs whenever the
\* process lives, whatever the other connections do.
HandlerRuns(c) == Alive

\* A framer that hands every frame to the dispatcher.
ValidateUnitIdAny(u) == TRUE

\* The framer's unit check: with single=False a frame is processed only if
\* its unit id is served (or 0 or 255 is).
ValidateUnitId(u) == single \/ 0 \in units \/ 255 \in units \/ u \in units

\* The server accepts a connection.
Accept(c) ==
    /\ phase = "running"
    /\ st[c] = "closed"
    /\ st' = [st EXCEPT ![c] = "recv"]
    /\ UNCHANGED <<blockValues, syncVars, req, resp, phase>>

\* The peer sends the first bytes of a frame only: the handler keeps them
\* and goes back to wait in recv.
RecvPartial(c) ==
    /\ HandlerRuns(c)
    /\ st[c] = "recv"
    /\ st' = [st EXCEPT ![c] = "partial"]
    /\ UNCHANGED <<blockValues, syncVars, req, resp, phase>>

\* A complete frame carrying request r is in the buffer.
RecvFrame(c, r) ==
    /\ HandlerRuns(c)
    /\ st[c] \in {"recv", "partial"}
    /\ st' = [st EXCEPT ![c] = "execute"]
    /\ req' = [req EXCEPT ![c] = r]
    /\ UNCHANGED <<blockValues, syncVars, resp, phase>>

RecvRead(c) == \E r \in ReadRequests : RecvFrame(c, r)

RecvWrite(c) == \E r \in WriteRequests : RecvFrame(c, r)

\* recv returns no data (the peer closed) or raises a socket error.
RecvClosed(c) ==
    /\ HandlerRuns(c)
    /\ st[c] \in {"recv", "partial"}
    /\ st' = [st EXCEPT ![c] = "closed"]
    /\ UNCHANGED <<blockValues, syncVars, req, resp, phase>>

\* The first part of request.execute(context) for request r on the heap bv:
\* the position the handler goes to and the response it has built, if any.
\* Read registers (3, 4): the quantity must be in 1..125 (else illegal data
\* value), then the address range must validate (else illegal data address).
\* Write single register (6): the value must fit 16 bits, the address must
\* validate.  Any other function code: illegal function.
Dispatch(r, bv) ==
    IF r.fc \in ReadFcs
      THEN IF ~(1 <= r.arg /\ r.arg <= MaxReadCount)
             THEN [to |-> "send", resp |-> DoException(r.fc, IllegalValue)]
           ELSE IF ~SlaveValidate(bv, r.unit, r.fc, r.address, r.arg)
             THEN [to |-> "send", resp |-> DoException(r.fc, IllegalAddress)]
           ELSE [to |-> "getValues", resp |-> NoResponse]
    ELSE IF r.fc \in WriteFcs
      THEN IF ~(0 <= r.arg /\ r.arg <= MaxRegister)
             THEN [to |-> "send", resp |-> DoException(r.fc, IllegalValue)]
           ELSE IF ~SlaveValidate(bv, r.unit, r.fc, r.address, 1)
             THEN [to |-> "send", resp |-> DoException(r.fc, IllegalAddress)]
           ELSE [to |-> "setValues", resp |-> NoResponse]
    ELSE [to |-> "send", resp |-> DoException(r.fc, IllegalFunction)]

\* A frame the unit check lets through although the table has no such
\* slave: context[unit] raises, the handler answers gateway no response.
ProcessNoSuchSlave(r, bv) ==
    IF HasSlave(r.unit)
      THEN Dispatch(r, bv)
      ELSE [to |-> "send", resp |-> DoException(r.fc, GatewayNoResponse)]

\* framer.processIncomingPacket(data, self.execute, units, single=single):
\* a frame for a unit that is not served is dropped (the frame is reset and
\* nothing is sent); any other frame is decoded and executed.
Process(r, bv) ==
    IF ~ValidateUnitId(r.unit)
      THEN [to |-> "resetFrame", resp |-> NoResponse]
      ELSE ProcessNoSuchSlave(r, bv)

ProcessIncomingPacket(c) ==
    /\ HandlerRuns(c)
    /\ st[c] = "execute"
    /\ LET p == Process(req[c], blockValues)
       IN  /\ st' = [st EXCEPT ![c] = p.to]
           /\ resp' = [resp EXCEPT ![c] = p.resp]
    /\ UNCHANGED <<blockValues, syncVars, req, phase>>

\* context.setValues(fx, address, [value]) of a write single register
ConnSetValues(c) ==
    /\ HandlerRuns(c)
    /\ st[c] = "setValues"
    /\ blockValues' = SlaveSetValues(blockValues, req[c].unit, req[c].fc,
                                     req[c].address, <<req[c].arg>>)
    /\ st' = [st EXCEPT ![c] = "getValues"]
    /\ UNCHANGED <<syncVars, req, resp, phase>>

\* context.getValues(fx, address, count) and the response built from it
ConnGetValues(c) ==
    /\ HandlerRuns(c)
    /\ st[c] = "getValues"
    /\ LET n == IF req[c].fc \in ReadFcs THEN req[c].arg ELSE 1
       IN  resp' = [resp EXCEPT ![c] =
                      Normal(req[c].fc,
                             SlaveGetValues(blockValues, req[c].unit, req[c].fc,
                                            req[c].address, n))]
    /\ st' = [st EXCEPT ![c] = "send"]
    /\ UNCHANGED <<blockValues, syncVars, req, phase>>

\* Where the handler goes after sending an exception response, were it to
\* drop the connection on errors.
AfterSendCloseOnError(r) == IF r.code # 0 THEN "closed" ELSE "recv"

\* After self.send(response) the handler loops back to recv.
AfterSend(r) == "recv"

\* self.send(response)
Send(c) ==
    /\ HandlerRuns(c)
    /\ st[c] = "send"
    /\ st' = [st EXCEPT ![c] = AfterSend(resp[c])]
    /\ req' = [req EXCEPT ![c] = NoRequest]
    /\ resp' = [resp EXCEPT ![c] = NoResponse]
    /\ UNCHANGED <<blockValues, syncVars, phase>>

\* framer.resetFrame() after a dropped frame; nothing is sent
ResetFrame(c) ==
    /\ HandlerRuns(c)
    /\ st[c] = "resetFrame"
    /\ st' = [st EXCEPT ![c] = "recv"]
    /\ req' = [req EXCEPT ![c] = NoRequest]
    /\ UNCHANGED <<blockValues, syncVars, resp, phase>>

\* The steps of the handler thread of connection c that need no input.
Handler(c) ==
    \/ ProcessIncomingPacket(c)
    \/ ConnSetValues(c)
    \/ ConnGetValues(c)
    \/ Send(c)
    \/ ResetFrame(c)

(* ------------------------------------------------------------------ *)
(* The process                                                         *)
(* ------------------------------------------------------------------ *)

\* Shutdown is signalled: StartTcpServer's serve loop is interrupted and
\* the main thread leaves it.
Shutdown ==
    /\ phase = "running"
    /\ phase' = "stopping"
    /\ UNCHANGED <<blockValues, syncVars, connVars>>

\* The interpreter exits; t.daemon = True, so the sync thread is not
\* joined: it is stopped wherever it is.
Exit ==
    /\ phase = "stopping"
    /\ phase' = "exited"
    /\ UNCHANGED <<blockValues, syncVars, connVars>>

Next ==
    \/ SyncGenerate
    \/ SyncSetValues
    \/ SyncSleep
    \/ \E c \in Conns : Accept(c)
    \/ \E c \in Conns : RecvPartial(c)
    \/ \E c \in Conns : RecvRead(c)
    \/ \E c \in Conns : RecvWrite(c)
    \/ \E c \in Conns : RecvClosed(c)
    \/ \E c \in Conns : ProcessIncomingPacket(c)
    \/ \E c \in Conns : ConnSetValues(c)
    \/ \E c \in Conns : ConnGetValues(c)
    \/ \E c \in Conns : Send(c)
    \/ \E c \in Conns : ResetFrame(c)
    \/ Shutdown
    \/ Exit

Spec == Init /\ [][Next]_vars

\* The program with clients that only read: no write request arrives.
NextRO ==
    \/ SyncGenerate
    \/ SyncSetValues
    \/ SyncSleep
    \/ \E c \in Conns : Accept(c)
    \/ \E c \in Conns : RecvPartial(c)
    \/ \E c \in Conns : RecvRead(c)
    \/ \E c \in Conns : RecvClosed(c)
    \/ \E c \in Conns : ProcessIncomingPacket(c)
    \/ \E c \in Conns : ConnGetValues(c)
    \/ \E c \in Conns : Send(c)
    \/ \E c \in Conns : ResetFrame(c)
    \/ Shutdown
    \/ Exit

SpecRO == Init /\ [][NextRO]_vars

\* Every thread of the process is scheduled fairly: the handler thread of
\* each connection and the sync thread.  Nothing is assumed of the clients
\* or of shutdown.
FairSpec == Spec /\ WF_vars(sync) /\ \A c \in Conns : WF_vars(Handler(c))

\* The response to request r when its handler runs without interleaving on
\* the heap bv (NoResponse: the frame is dropped).
Answer(r, bv) ==
    LET p == Process(r, bv)
    IN  IF p.to = "getValues"
          THEN Normal(r.fc, SlaveGetValues(bv, r.unit, r.fc, r.address, r.arg))
          ELSE p.resp

\* The registers 0..NValues-1 of bank fx of slave u, as a read sees them.
Registers(bv, u, fx) == SlaveGetValues(bv, u, fx, 0, NValues)

Zeros == [i \in 1..NValues |-> 0]

(* ------------------------------------------------------------------ *)
(* Claims                                                              *)
(* ------------------------------------------------------------------ *)

\* What registers 0..NValues-1 hold after one completed write of a tick, and
\* before the first one.
RegisterImages == {Zeros} \cup TickValues

RoundTrip(bv, v) ==
    \A u \in units :
        /\ Answer(Req(u, 4, 0, NValues), bv) = Normal(4, v)
        /\ \A a \in 0..(NValues - 1) : \A n \in {1, NValues - a} :
               Answer(Req(u, 4, a, n), bv) = Normal(4, SubSeq(v, a + 1, a + n))

C6_TickLeavesOtherBanks ==
    [][SyncSetValues =>
          \A u \in units : \A fx \in {1, 2, 3} :
              Registers(blockValues', u, fx) = Registers(blockValues, u, fx)]_vars

\* C6 amended: the block a tick writes is the holding-register, coil and
\* discrete-input bank of every slave as well: after each write of a tick
\* the registers 0..9 of all four banks of all three slaves hold the
\* tick's list, so a read of holding registers returns the tick's values.
C6_TickWritesEveryBank ==
    [][SyncSetValues =>
          \A u \in units : \A fx \in {1, 2, 3, 4} :
              Registers(blockValues', u, fx) = values]_vars

\* A read of the holding registers was answered with the values of the tick.
C6_Witness ==
    \E c \in Conns :
        /\ st[c] = "send"
        /\ req[c] = Req(2, 3, 0, 10)
        /\ resp[c] = Normal(3, values)
        /\ values # Zeros
        /\ pc = "sleep"

\* C10: in every state, the middle of a tick included, the four banks of the
\* three slaves have the same contents, and reads with function code 3 and
\* with function code 4 of any two slaves return the same values.
C10_BanksIdentical ==
    /\ \A u1, u2 \in units : \A b1, b2 \in Banks :
           blockValues[slaves[u1][b1]] = blockValues[slaves[u2][b2]]
    /\ \A u \in units : \A fx \in ReadFcs :
           \A a \in 0..(NValues - 1) : \A n \in {1, NValues - a} :
               Answer(Req(u, fx, a, n), blockValues).data
                   = Answer(Req(FirstSlave, 3, a, n), blockValues).data

\* The middle of a tick: slave 1 is written, slaves 2 and 3 are not yet.
C10_Witness ==
    /\ pc = "setValues"
    /\ slave_id = 2
    /\ Registers(blockValues, 1, 4) = values
    /\ values # Zeros

\* The addresses and quantities the read path is probed with in every state.
ProbeAddresses == 0..ProbeMax
ProbeCounts == {0, 1, 2, BlockSize - 1, BlockSize, BlockSize + 1, MaxReadCount + 1}

ReadLimit == Len(blockValues[block]) - 1

C5_NoTickAfterSignal ==
    [][~(phase # "running" /\ pc = "generate" /\ pc' = "setValues")]_vars

\* C5 amended: sync never leaves its loop and reads no shutdown signal: as
\* long as the process lives, signalled or not, its next step is ready (so
\* it may start ticks after the signal); it stops only where the exit of the
\* process stops it, possibly in the middle of a tick, and from then on no
\* register is written.
C5_RunsUntilExit ==
    /\ [](Alive => (pc \in {"generate", "setValues", "sleep"} /\ ENABLED sync))
    /\ [][~Alive => (blockValues' = blockValues /\ pc' = pc)]_vars

\* The process has exited while a tick had written slave 1 only.
C5_Witness ==
    /\ phase = "exited"
    /\ pc = "setValues"
    /\ slave_id = 2
    /\ Registers(blockValues, 1, 4) = values

\* A request that cannot succeed whatever the registers hold: a function
\* code that is not served, a quantity outside 1..125, or a range that ends
\* past register 9.
Failing(r) ==
    \/ r.fc \notin ReadFcs \cup WriteFcs
    \/ r.fc \in ReadFcs /\ ~(1 <= r.arg /\ r.arg <= MaxReadCount)
    \/ r.fc \in ReadFcs /\ r.address + r.arg > BlockSize
    \/ r.fc \in WriteFcs /\ r.address + 1 > BlockSize

\* A connection closes only where its handler waits in recv (the peer
\* closed, or a read error), never while a request is being handled.
ClosesOnlyInRecv ==
    \A c \in Conns :
        (st[c] # "closed" /\ st'[c] = "closed") => st[c] \in {"recv", "partial"}

ClientValues == {r.arg : r \in WriteRequests}

\* A tick's list has 10 values in 0..1000, sync addresses exactly the ids of
\* the slave table and so never raises, and the write that completes a tick
\* leaves input registers 0..9 of every slave equal to the tick's list.
TickWritesAllSlaves ==
    /\ [](/\ pc # "raised"
          /\ SyncSlaveIds = units
          /\ values # <<>> =>
                (Len(values) = NValues /\ \A i \in 1..NValues : values[i] \in RandLo..RandHi))
    /\ [][(SyncSetValues /\ pc' = "sleep") =>
             \A u \in units : Registers(blockValues', u, 4) = values]_vars

====
